---- MODULE Spec2Model ----
(***************************************************************************)
(* A model of SudokuSolver.py: the SudokuPuzzle grid (values, candidate    *)
(* ranges, referents) and the three searches of SudokuSolver (brute force, *)
(* backtracking, forward checking with MRV), with the recursion of the two *)
(* latter unfolded on an explicit call stack.                              *)
(***************************************************************************)
EXTENDS Integers, Sequences, FiniteSets, TLC

VARIABLES
    cellList,       \* the 81 integers read from the puzzle file
    puzzle,         \* the SudokuPuzzle object built from them (the caller's)
    commands,       \* the algorithm tokens the caller still has to pass
    algorithm,      \* the token of the readCommand call in progress
    pc,             \* where the call in progress stands
    workingPuzzle,  \* local of the running *Search method
    validCells,     \* local of the running *Search method
    failure,        \* local of the running *Search method
    counter,        \* local of the running *Search method
    stack,          \* activation records of backTrack/forwardCheckRecursion
    ret,            \* the tuple a recursion has just returned, if any
    assignments,    \* history: puzzle.setValue calls made by the recursions
    results         \* what each finished readCommand call reported

vars == <<cellList, puzzle, commands, algorithm, pc, workingPuzzle, validCells,
          failure, counter, stack, ret, assignments, results>>

---------------------------------------------------------------------------
(* Sequences as Python lists *)

Range(s) == {s[k] : k \in 1..Len(s)}

InList(x, s) == \E k \in 1..Len(s) : s[k] = x

\* list.index(x): the first position holding x (1-based here)
IndexOf(s, x) == CHOOSE k \in 1..Len(s) : s[k] = x /\ \A m \in 1..(k-1) : s[m] # x

\* list.remove(x): drops the first occurrence of x
ListRemove(s, x) ==
    LET k == IndexOf(s, x)
    IN  SubSeq(s, 1, k-1) \o SubSeq(s, k+1, Len(s))

\* F applied to the value of x (x is evaluated once, like the right-hand side of
\* an assignment, however often F uses it)
With(F(_), x) == CHOOSE r \in {F(v) : v \in {x}} : TRUE

---------------------------------------------------------------------------
(* SudokuPuzzle.__init__ *)

numbers == <<"1", "2", "3", "4", "5", "6", "7", "8", "9">>
letters == <<"A", "B", "C", "D", "E", "F", "G", "H", "I">>

\* "A1" .. "I9" as <<letter, digit>>, in the order the nested loops append them
keyList == [k \in 1..81 |-> <<letters[((k-1) \div 9) + 1], numbers[((k-1) % 9) + 1]>>]

KeySet == Range(keyList)

\* c in j, for a character c and a two-character key j
CharIn(c, j) == c = j[1] \/ c = j[2]

\* the nine literals of the square tests, as their sets of characters
squares ==
    << {"A","B","C","1","2","3"}, {"D","E","F","1","2","3"}, {"G","H","I","1","2","3"},
       {"A","B","C","4","5","6"}, {"D","E","F","4","5","6"}, {"G","H","I","4","5","6"},
       {"A","B","C","7","8","9"}, {"D","E","F","7","8","9"}, {"G","H","I","7","8","9"} >>

\* the inner loop without its square tests
IsReferentRowColumn(i, j) == (CharIn(i[1], j) \/ CharIn(i[2], j)) /\ i # j

\* does the inner loop append j to the referents of i
IsReferent(i, j) ==
    \/ (CharIn(i[1], j) \/ CharIn(i[2], j)) /\ i # j
    \/ \E s \in 1..Len(squares) :
          /\ i[1] \in squares[s] /\ i[2] \in squares[s]
          /\ j[1] \in squares[s] /\ j[2] \in squares[s]
          /\ i # j

cellReferents == [i \in KeySet |-> SelectSeq(keyList, LAMBDA j : IsReferent(i, j))]

FullRange == <<1, 2, 3, 4, 5, 6, 7, 8, 9>>

\* a setValue that leaves the ranges of the referents as they are
PruneNothing(ranges, cell, value) == ranges

\* removes value from the range of every referent of cell that still has it
PruneReferents(ranges, cell, value) ==
    [j \in KeySet |->
        IF InList(j, cellReferents[cell]) /\ InList(value, ranges[j])
        THEN ListRemove(ranges[j], value)
        ELSE ranges[j]]

\* What the pruning loop of the constructor leaves of the range of j: a value
\* goes as soon as some key holding it lists j among its referents.
InitialRange(values, j) ==
    SelectSeq(FullRange,
              LAMBDA v : ~\E i \in KeySet : values[i] = v /\ InList(j, cellReferents[i]))

SudokuPuzzle(cells) ==
    LET values == [i \in KeySet |-> cells[IndexOf(keyList, i)]]
        fixed  == SelectSeq(keyList, LAMBDA i : values[i] # 0)
    IN  [cellValues |-> values,
         cellRanges |-> [i \in KeySet |-> IF InList(i, fixed) THEN <<>>
                                          ELSE InitialRange(values, i)],
         fixedCells |-> fixed]

---------------------------------------------------------------------------
(* SudokuPuzzle methods *)

\* a validity test that looks at the cells of getCells only
isValidOpenOnly(p) ==
    \A i \in KeySet : \A k \in 1..Len(cellReferents[i]) :
        InList(i, p.fixedCells) \/ p.cellValues[i] # p.cellValues[cellReferents[i][k]]

isValid(p) ==
    \A i \in KeySet : \A k \in 1..Len(cellReferents[i]) :
        p.cellValues[i] # p.cellValues[cellReferents[i][k]]

\* a range that is never pruned
getRangeAll(p, cell) == FullRange

\* a range cut down to its first value
getRangeFirst(p, cell) ==
    IF p.cellRanges[cell] = <<>> THEN <<>> ELSE <<p.cellRanges[cell][1]>>

getRange(p, cell) == p.cellRanges[cell]

getCells(p) == SelectSeq(keyList, LAMBDA i : ~InList(i, p.fixedCells))

numOpenCells(p) == Cardinality({i \in KeySet : p.cellValues[i] = 0})

setValue(p, cell, value) ==
    [p EXCEPT !.cellValues = [@ EXCEPT ![cell] = value],
              !.cellRanges = PruneReferents([@ EXCEPT ![cell] = <<>>], cell, value)]

getValue(p, cell) == p.cellValues[cell]

Min(S) == CHOOSE x \in S : \A y \in S : x <= y

Count(s, x) == Cardinality({k \in 1..Len(s) : s[k] = x})

None == "None"

\* the loop of lines 360-363, n iterations left
RECURSIVE SmallestLoop(_, _, _, _, _)
SmallestLoop(n, locations, rangeSizes, smallest, output) ==
    IF n = 0 THEN output
    ELSE With(LAMBDA at :
              With(LAMBDA rest :
                   SmallestLoop(n - 1, rest[1], rest[2], smallest, rest[3]),
                   << SubSeq(locations, at + 1, Len(locations)),
                      SubSeq(rangeSizes, at + 1, Len(rangeSizes)),
                      Append(output, locations[at]) >>),
              IndexOf(rangeSizes, smallest))

\* a selection that stops at the first smallest cell
SmallestOne(locations, rangeSizes) ==
    IF rangeSizes = <<>> THEN None
    ELSE <<locations[IndexOf(rangeSizes, Min(Range(rangeSizes)))]>>

\* lines 355-366, on the two lists built by lines 348-354
Smallest(locations, rangeSizes) ==
    IF rangeSizes = <<>> THEN None
    ELSE With(LAMBDA smallest :
              IF Count(rangeSizes, smallest) > 1
              THEN SmallestLoop(Count(rangeSizes, smallest), locations, rangeSizes,
                                smallest, <<>>)
              ELSE <<locations[IndexOf(rangeSizes, smallest)]>>,
              Min(Range(rangeSizes)))

\* a selection that gives up as soon as a cell of getCells has an empty range
getSmallestRangeNoSkip(p) ==
    IF \E i \in Range(getCells(p)) : p.cellRanges[i] = <<>> THEN None
    ELSE With(LAMBDA locations :
              Smallest(locations,
                       [k \in 1..Len(locations) |-> Len(p.cellRanges[locations[k]])]),
              getCells(p))

getSmallestRange(p) ==
    With(LAMBDA locations :
         With(LAMBDA rangeSizes : Smallest(locations, rangeSizes),
              [k \in 1..Len(locations) |-> Len(p.cellRanges[locations[k]])]),
         SelectSeq(getCells(p), LAMBDA i : Len(p.cellRanges[i]) > 0))

\* the board as printBoard lays it out: the values in keyList order
printBoard(p) == [k \in 1..81 |-> p.cellValues[keyList[k]]]

---------------------------------------------------------------------------
(* The inputs: puzzle files and the caller's sequences of algorithm tokens *)

\* a solved board, row by row
BaseGrid ==
    << 5,3,4, 6,7,8, 9,1,2,
       1,2,6, 3,4,9, 5,7,8,
       7,8,9, 1,2,5, 3,4,6,
       8,1,2, 5,3,7, 4,6,9,
       4,6,5, 9,8,1, 2,3,7,
       9,7,3, 2,6,4, 8,5,1,
       2,9,1, 7,5,3, 6,8,4,
       3,4,7, 8,9,6, 1,2,5,
       6,5,8, 4,1,2, 7,9,3 >>

\* positions (in reading order) that a puzzle file may leave blank: A1, A2, A3,
\* E1 and E3; A1, A3, E1, E3 hold 5, 4, 4, 5 in BaseGrid
HoleCells == {1, 2, 3, 37, 39}

\* at most this many of them are blank in a puzzle file
MaxBlanks == 4

\* brute force is only asked for on files with at most this many blanks
MaxBruteForceBlanks == 2

NoOverride == <<0, 0>>

\* <<position, value>>: a given that a puzzle file may state differently
Overrides == {<<39, 4>>}

\* the blanks of one more file: A4, A5, A8, B5, B8, C4, C8, I4 and I5, each with
\* two digits in its range, where the first digit tried for a cell can lead nowhere
SearchHoles == {4, 5, 8, 14, 17, 22, 26, 76, 77}

SearchFile == [k \in 1..81 |-> IF k \in SearchHoles THEN 0 ELSE BaseGrid[k]]

Files ==
    { [k \in 1..81 |-> IF k \in H THEN 0
                       ELSE IF k = o[1] THEN o[2]
                       ELSE BaseGrid[k]] :
        H \in {G \in SUBSET HoleCells : Cardinality(G) <= MaxBlanks},
        o \in Overrides \cup {NoOverride} }
    \cup {SearchFile}

Blanks(cells) == Cardinality({k \in 1..81 : cells[k] = 0})

\* the tokens the caller passes to readCommand, one call after the other
Scripts ==
    { <<"BF", "BT">>, <<"BT", "FC-MRV">>, <<"FC-MRV", "BT">>, <<"FC-MRV", "FC-MRV">>,
      <<"XX", "FC-MRV">>, <<"bt">> }

---------------------------------------------------------------------------
(* State *)

NoPuzzle == [cellValues |-> <<>>, cellRanges |-> <<>>, fixedCells |-> <<>>]

NoRet == [set |-> FALSE, puzzle |-> NoPuzzle, failure |-> FALSE, counter |-> 0]

Returned(p, f, c) == [set |-> TRUE, puzzle |-> p, failure |-> f, counter |-> c]

\* the activation record of a recursion that has just been called
Call(p, f, c) ==
    [puzzle |-> p, failure |-> f, counter |-> c, at |-> "entry",
     workingPuzzle |-> NoPuzzle, cell |-> None, values |-> <<>>, next |-> 0]

Top == stack[Len(stack)]

Pop == SubSeq(stack, 1, Len(stack) - 1)

SetTop(f) == [stack EXCEPT ![Len(stack)] = f]

Report(outcome, board, returned) ==
    Append(results, [algorithm |-> algorithm, outcome |-> outcome, board |-> board,
                     counter |-> counter, assignments |-> assignments,
                     returned |-> returned])

Init ==
    /\ cellList \in Files
    /\ puzzle = SudokuPuzzle(cellList)
    /\ commands \in Scripts
    /\ InList("BF", commands) => Blanks(cellList) <= MaxBruteForceBlanks
    /\ algorithm = None
    /\ pc = "idle"
    /\ workingPuzzle = NoPuzzle
    /\ validCells = <<>>
    /\ failure = FALSE
    /\ counter = 0
    /\ stack = <<>>
    /\ ret = NoRet
    /\ assignments = 0
    /\ results = <<>>

---------------------------------------------------------------------------
(* SudokuSolver.readCommand *)

\* the search methods readCommand runs for a token, in order
\* a selector that falls back on brute force
DispatchDefault(token) ==
    IF token = "BF" \/ token = "BT" \/ token = "FC-MRV"
    THEN SelectSeq(<<"BF", "BT", "FC-MRV">>, LAMBDA a : token = a)
    ELSE <<"BF">>

Dispatch(token) ==
    IF token = "BF" \/ token = "BT" \/ token = "FC-MRV"
    THEN SelectSeq(<<"BF", "BT", "FC-MRV">>, LAMBDA a : token = a)
    ELSE <<>>

ErrorMessage == "Just one of BF, BT, or FC-MRV must be passed as an argument."

readCommand ==
    /\ pc = "idle"
    /\ commands # <<>>
    /\ commands' = Tail(commands)
    /\ algorithm' = Head(commands)
    /\ workingPuzzle' = NoPuzzle
    /\ validCells' = <<>>
    /\ failure' = FALSE
    /\ counter' = 0
    /\ assignments' = 0
    /\ IF Dispatch(Head(commands)) # <<>>
       THEN /\ pc' = Dispatch(Head(commands))[1]
            /\ UNCHANGED results
       ELSE /\ pc' = "idle"
            /\ results' = Append(results,
                   [algorithm |-> Head(commands), outcome |-> "error", board |-> <<>>,
                    counter |-> 0, assignments |-> 0, returned |-> ErrorMessage])
    /\ UNCHANGED <<cellList, puzzle, stack, ret>>

\* the end of a search: back in readCommand, which returns None
Finish(outcome, board) ==
    /\ pc' = "idle"
    /\ results' = Report(outcome, board, None)

---------------------------------------------------------------------------
(* SudokuSolver.bruteForceSearch *)

\* lines 36-37 from the k-th open cell on
RECURSIVE SetAll(_, _, _, _)
SetAll(p, cells, k, value) ==
    IF k > Len(cells) THEN p
    ELSE With(LAMBDA q : SetAll(q, cells, k + 1, value), setValue(p, cells[k], value))

\* a step that resets a 9 to 1 and forgets the carry
bruteForceNoCarry(p, cell, availableCells, fail) ==
    IF cell + 1 > Len(availableCells)
    THEN [puzzle |-> p, failure |-> fail, raised |-> TRUE]
    ELSE IF getValue(p, availableCells[cell + 1]) = 9
    THEN [puzzle |-> setValue(p, availableCells[cell + 1], 1),
          failure |-> fail, raised |-> FALSE]
    ELSE [puzzle |-> setValue(p, availableCells[cell + 1],
                              getValue(p, availableCells[cell + 1]) + 1),
          failure |-> fail, raised |-> FALSE]

\* cell is the 0-based index of the code; raised: the subscript was out of range
RECURSIVE bruteForceRecursion(_, _, _, _)
bruteForceRecursion(p, cell, availableCells, fail) ==
    IF cell > Len(availableCells)
    THEN [puzzle |-> p, failure |-> TRUE, raised |-> FALSE]
    ELSE IF cell + 1 > Len(availableCells)
    THEN [puzzle |-> p, failure |-> fail, raised |-> TRUE]
    ELSE IF getValue(p, availableCells[cell + 1]) = 9
    THEN With(LAMBDA q : bruteForceRecursion(q, cell + 1, availableCells, fail),
              setValue(p, availableCells[cell + 1], 1))
    ELSE [puzzle |-> setValue(p, availableCells[cell + 1],
                              getValue(p, availableCells[cell + 1]) + 1),
          failure |-> fail, raised |-> FALSE]

\* an assignment where the deep copy should be: one object under two names
sameObject(original, working) == working

\* copy.deepcopy: what the copied object holds once its copy holds working
deepcopy(original, working) == original

BruteForceStart ==
    /\ pc = "BF"
    /\ failure' = FALSE
    /\ validCells' = getCells(puzzle)
    /\ workingPuzzle' = With(LAMBDA cells : SetAll(puzzle, cells, 1, 1), getCells(puzzle))
    /\ counter' = Len(getCells(puzzle))
    /\ pc' = "bfLoop"
    /\ puzzle' = deepcopy(puzzle, workingPuzzle')
    /\ UNCHANGED <<cellList, commands, algorithm, stack, ret, assignments, results>>

BruteForceStep ==
    /\ pc = "bfLoop"
    /\ ~isValid(workingPuzzle) /\ ~failure
    /\ LET r == bruteForceRecursion(workingPuzzle, 0, validCells, failure)
       IN  IF r.raised
           THEN \* the cells that held 9 were reset in place before the raise
                /\ workingPuzzle' = r.puzzle
                /\ puzzle' = deepcopy(puzzle, workingPuzzle')
                /\ pc' = "idle"
                /\ commands' = <<>>
                /\ results' = Report("crash", <<>>, None)
                /\ UNCHANGED <<failure, counter>>
           ELSE /\ workingPuzzle' = r.puzzle
                /\ puzzle' = deepcopy(puzzle, workingPuzzle')
                /\ failure' = r.failure
                /\ counter' = counter + 1
                /\ UNCHANGED <<pc, commands, results>>
    /\ UNCHANGED <<cellList, algorithm, validCells, stack, ret, assignments>>

BruteForceEnd ==
    /\ pc = "bfLoop"
    /\ ~(~isValid(workingPuzzle) /\ ~failure)
    /\ IF failure THEN Finish("nosolution", <<>>)
                  ELSE Finish("solved", printBoard(workingPuzzle))
    /\ UNCHANGED <<cellList, puzzle, commands, algorithm, workingPuzzle, validCells,
                   failure, counter, stack, ret, assignments>>

---------------------------------------------------------------------------
(* SudokuSolver.setValue, resetValue, applyMRV *)

\* the first cell of getCells() whose value is 0, with the failure flag
\* a choice of cell that leaves out the test for a value of 0
firstCell(p, fail) ==
    IF getCells(p) # <<>> THEN <<getCells(p)[1], fail>> ELSE <<0, TRUE>>

firstUnassigned(p, fail) ==
    LET open == SelectSeq(getCells(p), LAMBDA i : getValue(p, i) = 0)
    IN  IF open # <<>> THEN <<open[1], fail>> ELSE <<0, TRUE>>

\* a reset that goes on with the grid the failed call handed back
resetValueKeep(p, fail) == <<ret.puzzle, fail>>

\* a deep copy is the same value
resetValue(p, fail) == <<p, fail>>

applyMRV(p, fail) ==
    IF getSmallestRange(p) = None THEN <<None, TRUE>>
    ELSE <<getSmallestRange(p), fail>>

---------------------------------------------------------------------------
(* SudokuSolver.backTrackSearch and backTrackRecursion *)

BackTrackStart ==
    /\ pc = "BT"
    /\ failure' = FALSE
    /\ counter' = 0
    /\ workingPuzzle' = puzzle
    /\ validCells' = getCells(puzzle)
    /\ pc' = "btLoop"
    /\ UNCHANGED <<cellList, puzzle, commands, algorithm, stack, ret, assignments, results>>

\* the loop test holds: the recursion is called
BackTrackCall ==
    /\ pc = "btLoop" /\ stack = <<>> /\ ~ret.set
    /\ ~isValid(workingPuzzle) /\ ~failure
    /\ stack' = <<Call(workingPuzzle, failure, counter)>>
    /\ UNCHANGED <<cellList, puzzle, commands, algorithm, pc, workingPuzzle, validCells,
                   failure, counter, ret, assignments, results>>

\* the recursion called from the loop has returned
BackTrackAssign ==
    /\ pc = "btLoop" /\ stack = <<>> /\ ret.set
    /\ workingPuzzle' = ret.puzzle
    /\ failure' = ret.failure
    /\ counter' = ret.counter
    /\ ret' = NoRet
    /\ UNCHANGED <<cellList, puzzle, commands, algorithm, pc, validCells, stack,
                   assignments, results>>

BackTrackEnd ==
    /\ pc = "btLoop" /\ stack = <<>> /\ ~ret.set
    /\ ~(~isValid(workingPuzzle) /\ ~failure)
    /\ IF failure THEN Finish("nosolution", <<>>)
                  ELSE Finish("solved", printBoard(workingPuzzle))
    /\ UNCHANGED <<cellList, puzzle, commands, algorithm, workingPuzzle, validCells,
                   failure, counter, stack, ret, assignments>>

\* lines 88-95: the copy, the test for open cells, the choice of the cell
BackTrackEnter ==
    /\ pc = "btLoop" /\ stack # <<>> /\ ~ret.set
    /\ Top.at = "entry"
    /\ IF numOpenCells(Top.puzzle) = 0
       THEN /\ ret' = Returned(Top.puzzle, FALSE, Top.counter)
            /\ stack' = Pop
       ELSE /\ stack' = SetTop([Top EXCEPT
                   !.at = "loop",
                   !.workingPuzzle = Top.puzzle,
                   !.cell = firstUnassigned(Top.puzzle, FALSE)[1],
                   !.failure = firstUnassigned(Top.puzzle, FALSE)[2],
                   !.values = getRange(Top.puzzle, firstUnassigned(Top.puzzle, FALSE)[1]),
                   !.next = 1])
            /\ UNCHANGED ret
    /\ UNCHANGED <<cellList, puzzle, commands, algorithm, pc, workingPuzzle, validCells,
                   failure, counter, assignments, results>>

\* lines 95-100: the next value is set and the recursion called on the result
BackTrackTry ==
    /\ pc = "btLoop" /\ stack # <<>> /\ ~ret.set
    /\ Top.at = "loop" /\ Top.next <= Len(Top.values)
    /\ stack' = Append(
           SetTop([Top EXCEPT
               !.workingPuzzle = setValue(@, Top.cell, Top.values[Top.next]),
               !.counter = @ + 1]),
           Call(setValue(Top.workingPuzzle, Top.cell, Top.values[Top.next]),
                Top.failure, Top.counter + 1))
    /\ assignments' = assignments + 1
    /\ UNCHANGED <<cellList, puzzle, commands, algorithm, pc, workingPuzzle, validCells,
                   failure, counter, ret, results>>

\* lines 100-105: the recursive call has returned
BackTrackBack ==
    /\ pc = "btLoop" /\ stack # <<>> /\ ret.set
    /\ IF ~ret.failure
       THEN /\ ret' = Returned(ret.puzzle, ret.failure, ret.counter)
            /\ stack' = Pop
       ELSE /\ ret' = NoRet
            /\ stack' = SetTop([Top EXCEPT
                   !.workingPuzzle = resetValue(Top.puzzle, ret.failure)[1],
                   !.failure = resetValue(Top.puzzle, ret.failure)[2],
                   !.next = @ + 1])
    /\ UNCHANGED <<cellList, puzzle, commands, algorithm, pc, workingPuzzle, validCells,
                   failure, counter, assignments, results>>

\* lines 106-107: no value is left
BackTrackFail ==
    /\ pc = "btLoop" /\ stack # <<>> /\ ~ret.set
    /\ Top.at = "loop" /\ Top.next > Len(Top.values)
    /\ ret' = Returned(Top.workingPuzzle, TRUE, Top.counter)
    /\ stack' = Pop
    /\ UNCHANGED <<cellList, puzzle, commands, algorithm, pc, workingPuzzle, validCells,
                   failure, counter, assignments, results>>

---------------------------------------------------------------------------
(* SudokuSolver.forwardCheckSearch and forwardCheckRecursion *)

ForwardCheckStart ==
    /\ pc = "FC-MRV"
    /\ failure' = FALSE
    /\ counter' = 0
    /\ workingPuzzle' = puzzle
    /\ validCells' = getCells(puzzle)
    /\ pc' = "fcLoop"
    /\ UNCHANGED <<cellList, puzzle, commands, algorithm, stack, ret, assignments, results>>

ForwardCheckCall ==
    /\ pc = "fcLoop" /\ stack = <<>> /\ ~ret.set
    /\ ~isValid(workingPuzzle) /\ ~failure
    /\ stack' = <<Call(workingPuzzle, failure, counter)>>
    /\ UNCHANGED <<cellList, puzzle, commands, algorithm, pc, workingPuzzle, validCells,
                   failure, counter, ret, assignments, results>>

ForwardCheckAssign ==
    /\ pc = "fcLoop" /\ stack = <<>> /\ ret.set
    /\ workingPuzzle' = ret.puzzle
    /\ failure' = ret.failure
    /\ counter' = ret.counter
    /\ ret' = NoRet
    /\ UNCHANGED <<cellList, puzzle, commands, algorithm, pc, validCells, stack,
                   assignments, results>>

ForwardCheckEnd ==
    /\ pc = "fcLoop" /\ stack = <<>> /\ ~ret.set
    /\ ~(~isValid(workingPuzzle) /\ ~failure)
    /\ IF failure THEN Finish("nosolution", <<>>)
                  ELSE Finish("solved", printBoard(workingPuzzle))
    /\ UNCHANGED <<cellList, puzzle, commands, algorithm, workingPuzzle, validCells,
                   failure, counter, stack, ret, assignments>>

\* lines 132-142 and 155: the copy, the test for open cells, the MRV choice
ForwardCheckEnter ==
    /\ pc = "fcLoop" /\ stack # <<>> /\ ~ret.set
    /\ Top.at = "entry"
    /\ IF numOpenCells(Top.puzzle) = 0
       THEN /\ ret' = Returned(Top.puzzle, FALSE, Top.counter)
            /\ stack' = Pop
       ELSE IF applyMRV(Top.puzzle, FALSE)[2]
       THEN /\ ret' = Returned(Top.puzzle, TRUE, Top.counter)
            /\ stack' = Pop
       ELSE /\ stack' = SetTop([Top EXCEPT
                   !.at = "loop",
                   !.workingPuzzle = Top.puzzle,
                   !.failure = FALSE,
                   !.cell = applyMRV(Top.puzzle, FALSE)[1][1],
                   !.values = getRange(Top.puzzle, applyMRV(Top.puzzle, FALSE)[1][1]),
                   !.next = 1])
            /\ UNCHANGED ret
    /\ UNCHANGED <<cellList, puzzle, commands, algorithm, pc, workingPuzzle, validCells,
                   failure, counter, assignments, results>>

\* lines 142-147
ForwardCheckTry ==
    /\ pc = "fcLoop" /\ stack # <<>> /\ ~ret.set
    /\ Top.at = "loop" /\ Top.next <= Len(Top.values)
    /\ stack' = Append(
           SetTop([Top EXCEPT
               !.workingPuzzle = setValue(@, Top.cell, Top.values[Top.next]),
               !.counter = @ + 1]),
           Call(setValue(Top.workingPuzzle, Top.cell, Top.values[Top.next]),
                Top.failure, Top.counter + 1))
    /\ assignments' = assignments + 1
    /\ UNCHANGED <<cellList, puzzle, commands, algorithm, pc, workingPuzzle, validCells,
                   failure, counter, ret, results>>

\* lines 147-152
ForwardCheckBack ==
    /\ pc = "fcLoop" /\ stack # <<>> /\ ret.set
    /\ IF ~ret.failure
       THEN /\ ret' = Returned(ret.puzzle, ret.failure, ret.counter)
            /\ stack' = Pop
       ELSE /\ ret' = NoRet
            /\ stack' = SetTop([Top EXCEPT
                   !.workingPuzzle = resetValue(Top.puzzle, ret.failure)[1],
                   !.failure = resetValue(Top.puzzle, ret.failure)[2],
                   !.next = @ + 1])
    /\ UNCHANGED <<cellList, puzzle, commands, algorithm, pc, workingPuzzle, validCells,
                   failure, counter, assignments, results>>

\* lines 153-154: the range of the first MRV cell is used up
ForwardCheckFail ==
    /\ pc = "fcLoop" /\ stack # <<>> /\ ~ret.set
    /\ Top.at = "loop" /\ Top.next > Len(Top.values)
    /\ ret' = Returned(Top.workingPuzzle, TRUE, Top.counter)
    /\ stack' = Pop
    /\ UNCHANGED <<cellList, puzzle, commands, algorithm, pc, workingPuzzle, validCells,
                   failure, counter, assignments, results>>

---------------------------------------------------------------------------
(* The grid used directly: any caller of SudokuPuzzle.setValue that keeps a
   deep copy and goes back to it, as the recursions do with resetValue *)

\* at most this many setValue calls by the direct caller
MaxCalls == 2

\* the cells and values the direct caller passes to setValue
GridCells == {keyList[1], keyList[3], keyList[37]}

GridValues == {4, 5, 9}

InitGrid ==
    /\ cellList \in Files
    /\ puzzle = SudokuPuzzle(cellList)
    /\ commands = <<>>
    /\ algorithm = None
    /\ pc = "grid"
    /\ workingPuzzle = puzzle
    /\ validCells = <<>>
    /\ failure = FALSE
    /\ counter = 0
    /\ stack = <<>>
    /\ ret = NoRet
    /\ assignments = 0
    /\ results = <<>>

GridSetValue ==
    /\ pc = "grid"
    /\ assignments < MaxCalls
    /\ \E cell \in GridCells, value \in GridValues :
          workingPuzzle' = setValue(workingPuzzle, cell, value)
    /\ assignments' = assignments + 1
    /\ UNCHANGED <<cellList, puzzle, commands, algorithm, pc, validCells, failure,
                   counter, stack, ret, results>>

\* copy.deepcopy of the grid, kept aside
GridCopy ==
    /\ pc = "grid"
    /\ stack = <<>>
    /\ stack' = <<Call(workingPuzzle, FALSE, 0)>>
    /\ UNCHANGED <<cellList, puzzle, commands, algorithm, pc, workingPuzzle, validCells,
                   failure, counter, ret, assignments, results>>

\* resetValue on the copy kept aside
GridReset ==
    /\ pc = "grid"
    /\ stack # <<>>
    /\ workingPuzzle' = resetValue(Top.puzzle, FALSE)[1]
    /\ UNCHANGED <<cellList, puzzle, commands, algorithm, pc, validCells, failure,
                   counter, stack, ret, assignments, results>>

NextGrid ==
    \/ GridSetValue
    \/ GridCopy
    \/ GridReset

GridSpec == InitGrid /\ [][NextGrid]_vars

---------------------------------------------------------------------------

Next ==
    \/ readCommand
    \/ BruteForceStart
    \/ BruteForceStep
    \/ BruteForceEnd
    \/ BackTrackStart
    \/ BackTrackCall
    \/ BackTrackAssign
    \/ BackTrackEnd
    \/ BackTrackEnter
    \/ BackTrackTry
    \/ BackTrackBack
    \/ BackTrackFail
    \/ ForwardCheckStart
    \/ ForwardCheckCall
    \/ ForwardCheckAssign
    \/ ForwardCheckEnd
    \/ ForwardCheckEnter
    \/ ForwardCheckTry
    \/ ForwardCheckBack
    \/ ForwardCheckFail

Spec == Init /\ [][Next]_vars

\* the interpreter keeps executing the program
FairSpec == Spec /\ WF_vars(Next)

---------------------------------------------------------------------------
(* What the claims speak of, stated on the puzzle file itself *)

RowOf(k) == (k - 1) \div 9

ColOf(k) == (k - 1) % 9

\* two positions of the board that share a row, a column or a 3x3 block
Peers(k, m) ==
    /\ k # m
    /\ \/ RowOf(k) = RowOf(m)
       \/ ColOf(k) = ColOf(m)
       \/ RowOf(k) \div 3 = RowOf(m) \div 3 /\ ColOf(k) \div 3 = ColOf(m) \div 3

\* two givens of the file clash
GivenConflict(cells) ==
    \E k \in 1..81 : cells[k] # 0 /\ \E m \in 1..81 : cells[k] = cells[m] /\ Peers(k, m)

BlankPositions(cells) == {k \in 1..81 : cells[k] = 0}

\* the boards in S with every position of todo filled without a clash
RECURSIVE Fill(_, _)
Fill(S, todo) ==
    IF todo = {} THEN S
    ELSE LET k == CHOOSE x \in todo : TRUE
         IN  Fill({[g[1] EXCEPT ![k] = g[2]] :
                     g \in {h \in S \X (1..9) :
                              \A m \in 1..81 : Peers(k, m) => h[1][m] # h[2]}},
                  todo \ {k})

\* the complete conflict-free boards that extend the file
Extensions(cells) ==
    IF GivenConflict(cells) THEN {} ELSE Fill({cells}, BlankPositions(cells))

ValidTokens == {"BF", "BT", "FC-MRV"}

Reports(a) == {k \in 1..Len(results) : results[k].algorithm = a}

\* the digits a position's peers hold in the file
PeerDigits(cells, k) == {cells[m] : m \in {n \in 1..81 : Peers(k, n)}} \ {0}

---------------------------------------------------------------------------
(* Claims *)

\* C1: a strategy that reports success returns a board with no 0, with no two
\* peers holding the same value, and with every given of the file unchanged.
C1_SolvedGridValid ==
    \A r \in 1..Len(results) :
        results[r].outcome = "solved" =>
            /\ \A k \in 1..81 : results[r].board[k] # 0
            /\ \A k, m \in 1..81 : Peers(k, m) => results[r].board[k] # results[r].board[m]
            /\ \A k \in 1..81 : cellList[k] # 0 => results[r].board[k] = cellList[k]

\* C2: on a conflict-free file with exactly one blank whose peers hold eight
\* distinct digits, backtracking reports success with the missing digit in the
\* blank and a node count of 1.
C2_SingleBlankOneNode ==
    \A r \in Reports("BT") : \A k \in 1..81 :
        ( /\ ~GivenConflict(cellList)
          /\ BlankPositions(cellList) = {k}
          /\ Cardinality(PeerDigits(cellList, k)) = 8 ) =>
            /\ results[r].outcome = "solved"
            /\ results[r].board[k] \in (1..9) \ PeerDigits(cellList, k)
            /\ results[r].counter = 1

\* C3: on a file with a blank whose range is empty after construction, forward
\* checking reports no solution with a node count of 0 and not one assignment.
C3_EmptyDomainFailsAtOnce ==
    \A r \in Reports("FC-MRV") :
        (\E i \in KeySet : puzzle.cellValues[i] = 0 /\ puzzle.cellRanges[i] = <<>>) =>
            /\ results[r].outcome = "nosolution"
            /\ results[r].counter = 0
            /\ results[r].assignments = 0

\* C4: on a file with exactly one complete conflict-free extension, whatever
\* backtracking and forward checking report is success, with the same board.
C4_SameBoard ==
    (Reports("BT") \cup Reports("FC-MRV") # {} /\ Cardinality(Extensions(cellList)) = 1) =>
        \A r, q \in Reports("BT") \cup Reports("FC-MRV") :
            /\ results[r].outcome = "solved"
            /\ results[r].board = results[q].board

\* both searches have searched and reported on a file with one extension, with
\* different node counts
C4_Witness ==
    /\ Cardinality(Extensions(cellList)) = 1
    /\ \E r \in Reports("BT") : \E q \in Reports("FC-MRV") :
          /\ results[r].counter > 0 /\ results[q].counter > 0
          /\ results[r].counter # results[q].counter
          /\ results[r].board = results[q].board
          /\ results[r].board \in Extensions(cellList)

\* C5: the node count that backtracking or forward checking ends with is the
\* number of setValue calls its recursion made, failed sub-searches included.
C5_CounterCountsAssignments ==
    \A r \in Reports("BT") \cup Reports("FC-MRV") :
        results[r].counter = results[r].assignments

\* C6: in a grid reached by setValue calls and restorations, the range of a cell
\* with value 0 holds no value of a referent, and the range of a cell with a value
\* is empty.
DomainConsistent(p) ==
    \A i \in KeySet :
        /\ p.cellValues[i] = 0 =>
              \A k \in 1..Len(cellReferents[i]) :
                  p.cellValues[cellReferents[i][k]] # 0 =>
                      ~InList(p.cellValues[cellReferents[i][k]], p.cellRanges[i])
        /\ p.cellValues[i] # 0 => p.cellRanges[i] = <<>>

C6_DomainConsistency ==
    /\ DomainConsistent(workingPuzzle)
    /\ \A f \in 1..Len(stack) : DomainConsistent(stack[f].puzzle)

\* two setValue calls, then back on the copy taken after the first, which pruned
\* the range of a blank cell
C6_Witness ==
    /\ assignments = 2
    /\ stack # <<>>
    /\ stack[1].puzzle # puzzle
    /\ workingPuzzle = stack[1].puzzle
    /\ \E i \in KeySet :
          /\ workingPuzzle.cellValues[i] = 0
          /\ Len(workingPuzzle.cellRanges[i]) < Len(puzzle.cellRanges[i])

\* C7: a backtracking or forward-checking search that has started ends.
C7_SearchEnds == (pc \in {"btLoop", "fcLoop"}) ~> (pc = "idle")

\* C8: brute force on a file that no combination of digits completes ends in the
\* no-solution outcome.
C8_ExhaustionReportsFailure ==
    \A r \in Reports("BF") :
        Extensions(cellList) = {} => results[r].outcome = "nosolution"

\* C9 as claimed: on a file with two clashing givens no search step happens: no
\* assignment, no node counted.
C9_ConflictStopsBeforeSearch ==
    GivenConflict(cellList) =>
        /\ counter = 0
        /\ assignments = 0
        /\ workingPuzzle = NoPuzzle

\* C9 as amended: construction lets a file with two clashing givens through and
\* the strategy runs on it, and no strategy reports success on such a file.
C9_ConflictNeverSolved ==
    \A r \in 1..Len(results) :
        results[r].outcome = "solved" => ~GivenConflict(cellList)

\* a search has run on clashing givens, counted a node and reported no solution
C9_Witness ==
    /\ GivenConflict(cellList)
    /\ \E r \in 1..Len(results) :
          /\ results[r].outcome = "nosolution"
          /\ results[r].counter > 0

\* C10: a token other than BF, BT, FC-MRV gets the error message back and runs no
\* search; each of the three runs its own search and no other.
C10_Selector ==
    /\ (algorithm # None /\ algorithm \notin ValidTokens) =>
          /\ pc = "idle" /\ stack = <<>> /\ workingPuzzle = NoPuzzle
          /\ counter = 0 /\ assignments = 0
          /\ puzzle = SudokuPuzzle(cellList)
    /\ pc \in {"BF", "bfLoop"} => algorithm = "BF"
    /\ pc \in {"BT", "btLoop"} => algorithm = "BT"
    /\ pc \in {"FC-MRV", "fcLoop"} => algorithm = "FC-MRV"
    /\ \A r \in 1..Len(results) :
          IF results[r].algorithm \in ValidTokens
          THEN results[r].outcome # "error" /\ results[r].returned = None
          ELSE /\ results[r].outcome = "error"
               /\ results[r].returned = ErrorMessage
               /\ results[r].counter = 0 /\ results[r].assignments = 0

\* an unknown token was answered with the message, and the next call searched
C10_Witness ==
    /\ Len(results) = 2
    /\ results[1].algorithm = "XX" /\ results[1].returned = ErrorMessage
    /\ results[2].algorithm = "FC-MRV" /\ results[2].counter > 0

\* no two peers of the board hold the same digit (blanks do not count)
NoClash(board) ==
    \A k \in 1..81 : board[k] # 0 => \A m \in 1..81 : Peers(k, m) => board[k] # board[m]

\* C11: isValid is true of a grid exactly when no cell holds the same nonzero value
\* as one of its peers; two blank peers do not make it false.
C11_IsValidIffNoClash ==
    pc \in {"bfLoop", "btLoop", "fcLoop"} =>
        (isValid(workingPuzzle) <=> NoClash(printBoard(workingPuzzle)))

\* the referents built for the cell at position a, as positions
ReferentPositions(a) ==
    {b \in 1..81 : InList(keyList[b], cellReferents[keyList[a]])}

PeerRelationAsBuilt ==
    \A a \in 1..81 :
        /\ a \notin ReferentPositions(a)
        /\ Len(cellReferents[keyList[a]]) = 20
        /\ ReferentPositions(a) = {b \in 1..81 : Peers(a, b)}
        /\ \A b \in ReferentPositions(a) : a \in ReferentPositions(b)

\* C12: the referents built by the constructor are, for every cell, the 20 other
\* cells of its row, its column and its block, each once; the relation is
\* symmetric and irreflexive and is the same in every state of a search.
C12_PeerRelation ==
    /\ PeerRelationAsBuilt
    /\ \A f \in 1..Len(stack) :
          stack[f].at = "loop" =>
              \A i \in KeySet :
                  stack[f].workingPuzzle.cellRanges[i] # stack[f].puzzle.cellRanges[i] =>
                      i = stack[f].cell \/ InList(i, cellReferents[stack[f].cell])

\* a search step has assigned a cell and pruned the range of one of its 20 referents
C12_Witness ==
    /\ stack # <<>>
    /\ stack[1].at = "loop"
    /\ Len(cellReferents[stack[1].cell]) = 20
    /\ \E i \in KeySet :
          /\ InList(i, cellReferents[stack[1].cell])
          /\ stack[1].workingPuzzle.cellRanges[i] # stack[1].puzzle.cellRanges[i]

\* the digits that no peer of position k holds on the board, ascending
FreeDigits(board, k) ==
    SelectSeq(FullRange, LAMBDA v : \A m \in 1..81 : Peers(k, m) => board[m] # v)

\* the first blank position of the board, row-major
FirstBlank(board) == Min({k \in 1..81 : board[k] = 0})

\* C13 as claimed: at every level of backtracking the values tried for the
\* selected cell are the nine digits 1..9 in ascending order.
C13_TriesAllNine ==
    pc = "btLoop" =>
        \A f \in 1..Len(stack) : stack[f].at = "loop" => stack[f].values = FullRange

\* C13 as amended: at every level of backtracking the selected cell is the first
\* blank cell, row-major, and the values tried are the digits of its pruned range
\* in ascending order, which are the digits no peer holds; a digit that clashes
\* with an assigned peer is never assigned.
C13_TriesRangeOnly ==
    pc = "btLoop" =>
        \A f \in 1..Len(stack) :
            stack[f].at = "loop" =>
                /\ stack[f].cell = keyList[FirstBlank(printBoard(stack[f].puzzle))]
                /\ stack[f].values =
                       FreeDigits(printBoard(stack[f].puzzle), IndexOf(keyList, stack[f].cell))

\* backtracking is on the second value of a cell whose range holds two digits
C13_Witness ==
    /\ pc = "btLoop"
    /\ \E f \in 1..Len(stack) :
          /\ stack[f].at = "loop"
          /\ Len(stack[f].values) = 2
          /\ stack[f].next = 2
          /\ stack[f].workingPuzzle.cellValues[stack[f].cell] = stack[f].values[2]

\* the frames that are in both stacks of a step
KeptFrames == 1..(IF Len(stack) < Len(stack') THEN Len(stack) ELSE Len(stack'))

\* a level that is between two attempts holds the grid it was passed; a level
\* that waits for its recursive call holds that grid with the one assignment
RestoredFrame(f) ==
    stack[f].at = "loop" =>
        IF f = Len(stack) /\ ~ret.set
        THEN stack[f].workingPuzzle = stack[f].puzzle
        ELSE /\ stack[f].workingPuzzle.cellValues =
                    [stack[f].puzzle.cellValues EXCEPT
                        ![stack[f].cell] = stack[f].values[stack[f].next]]
             /\ \A i \in KeySet :
                    stack[f].workingPuzzle.cellRanges[i] # stack[f].puzzle.cellRanges[i] =>
                        i = stack[f].cell \/ InList(i, cellReferents[stack[f].cell])

\* C14: in backtracking and forward checking, once a recursive call has reported
\* failure the grid of the next attempt has the values and the ranges the grid
\* had before the assignment, and the grid passed into a level is never changed
\* while the level runs.
C14_RestoreAfterFailure ==
    [][ /\ \A f \in KeptFrames : stack'[f].puzzle = stack[f].puzzle
        /\ (stack # <<>> /\ ret.set /\ ret.failure) =>
               /\ Len(stack') = Len(stack)
               /\ stack'[Len(stack)].workingPuzzle = stack[Len(stack)].puzzle
        /\ \A f \in 1..Len(stack) : RestoredFrame(f) ]_vars

\* a level is back on the grid it was passed after a failed attempt, which had
\* assigned a cell one level down as well
C14_Witness ==
    /\ stack # <<>> /\ ~ret.set
    /\ Top.at = "loop" /\ Top.next = 2
    /\ Top.workingPuzzle = Top.puzzle
    /\ assignments >= 2

\* the values of the originally-blank cells of the working grid, in list order
BlankDigits(p) == [k \in 1..Len(validCells) |-> getValue(p, validCells[k])]

\* the digits read as a number in base 9, the k-th being the lowest place
RECURSIVE Odometer(_, _)
Odometer(d, k) ==
    IF k > Len(d) THEN 0 ELSE (d[k] - 1) + 9 * Odometer(d, k + 1)

Reversed(d) == [k \in 1..Len(d) |-> d[Len(d) + 1 - k]]

\* a brute-force step that went on to another combination
BruteForceMoved ==
    pc = "bfLoop" /\ pc' = "bfLoop" /\ workingPuzzle' # workingPuzzle

\* C15 as claimed: a brute-force step increments the LAST originally-blank cell
\* and carries into the preceding one, so the combinations are counted with the
\* last cell as the lowest place.
C15_LastCellFirst ==
    [][BruteForceMoved =>
          Odometer(Reversed(BlankDigits(workingPuzzle')), 1) =
              Odometer(Reversed(BlankDigits(workingPuzzle)), 1) + 1]_vars

\* C15 as amended: a brute-force step increments the FIRST originally-blank cell,
\* resets a cell that holds 9 to 1 and carries into the FOLLOWING cell; the
\* enumeration is over exactly when the carry runs past the LAST cell, where the
\* step raises an error; after initialisation every originally-blank cell holds
\* a value in 1..9 and no given cell is changed.
C15_FirstCellFirst ==
    [][ /\ BruteForceMoved =>
              Odometer(BlankDigits(workingPuzzle'), 1) =
                  Odometer(BlankDigits(workingPuzzle), 1) + 1
        /\ (pc = "bfLoop" /\ pc' # "bfLoop") =>
              (results'[Len(results')].outcome = "crash" <=>
                  /\ ~isValid(workingPuzzle)
                  /\ \A k \in 1..Len(validCells) : BlankDigits(workingPuzzle)[k] = 9)
        /\ pc' = "bfLoop" =>
              /\ \A k \in 1..Len(validCells) : BlankDigits(workingPuzzle')[k] \in 1..9
              /\ \A k \in 1..81 :
                    cellList[k] # 0 => printBoard(workingPuzzle')[k] = cellList[k] ]_vars

\* the first blank cell has gone from 9 back to 1 and the second one is on 2
C15_Witness ==
    /\ pc = "bfLoop"
    /\ Len(validCells) = 2
    /\ BlankDigits(workingPuzzle) = <<1, 2>>
    /\ counter = 2 + 9

\* every grid the program holds in the state
GridsHeld ==
    ({puzzle, workingPuzzle} \cup {stack[f].puzzle : f \in 1..Len(stack)}
        \cup {stack[f].workingPuzzle : f \in 1..Len(stack)}) \ {NoPuzzle}

\* the keys of the non-given cells with a non-empty range, row-major
Candidates(p) ==
    SelectSeq(keyList, LAMBDA i : ~InList(i, p.fixedCells) /\ p.cellRanges[i] # <<>>)

\* those of the candidates whose range is no longer than any other's
SmallestAmong(p, cand) ==
    SelectSeq(cand, LAMBDA i : \A k \in 1..Len(cand) :
                                  Len(p.cellRanges[i]) <= Len(p.cellRanges[cand[k]]))

\* is what getSmallestRange returns on p what the candidates of p call for
SmallestAsExpected(p) ==
    With(LAMBDA cand :
         With(LAMBDA got :
              /\ got = None <=> cand = <<>>
              /\ got # None => got = SmallestAmong(p, cand),
              getSmallestRange(p)),
         Candidates(p))

\* C16: getSmallestRange returns the non-given cells whose range is non-empty
\* and of the smallest size among the non-empty ranges, each once and row-major,
\* and returns None exactly when no non-given cell has a non-empty range.
C16_SmallestRange == \A p \in GridsHeld : SmallestAsExpected(p)

\* forward checking stands on a grid with two or more tied cells, a cell with a
\* longer range and an assigned cell that is no given
C16_Witness ==
    /\ pc = "fcLoop" /\ stack # <<>>
    /\ Top.puzzle # puzzle
    /\ getSmallestRange(Top.puzzle) # None
    /\ Len(getSmallestRange(Top.puzzle)) >= 2
    /\ Len(Candidates(Top.puzzle)) > Len(getSmallestRange(Top.puzzle))

\* C17: a forward-checking level with several tied cells reports failure only
\* after the range of the first tied cell was used up and the second tied cell
\* was tried.
C17_SecondTiedCellTried ==
    pc = "fcLoop" =>
        \A f \in 1..Len(stack) :
            ( /\ stack[f].at = "loop"
              /\ stack[f].next > Len(stack[f].values)
              /\ Len(getSmallestRange(stack[f].puzzle)) >= 2 ) =>
                stack[f].cell # getSmallestRange(stack[f].puzzle)[1]

\* C18: no step of a strategy changes a value or a range of the grid the caller
\* passed in, and a backtracking or forward-checking run, first or second, starts
\* on that grid.
C18_CallerGridUnchanged ==
    [][ /\ puzzle' = puzzle
        /\ (pc \in ValidTokens /\ pc' \in {"btLoop", "fcLoop"}) => workingPuzzle' = puzzle
      ]_vars

\* brute force has stepped through combinations to a solution, and the run after
\* it has searched the same puzzle to the same board
C18_Witness ==
    /\ Len(results) = 2
    /\ results[1].algorithm = "BF" /\ results[1].outcome = "solved"
    /\ results[1].counter > 2
    /\ results[2].algorithm = "BT" /\ results[2].outcome = "solved"
    /\ results[2].counter > 0
    /\ results[2].board = results[1].board
    /\ printBoard(puzzle) = cellList

\* C19: on a file whose givens do not clash and that has a complete conflict-free
\* extension, backtracking and forward checking never report that no solution
\* exists.
C19_Complete ==
    \A r \in Reports("BT") \cup Reports("FC-MRV") :
        results[r].outcome = "nosolution" => Extensions(cellList) = {}

\* forward checking has solved a file after dead ends (more assignments than
\* the count it ends with) and, on the same file again, stands at a
\* level that branches on the first of several tied cells while a blank cell
\* with an empty range is passed over
C19_Witness ==
    /\ Len(results) = 1
    /\ results[1].algorithm = "FC-MRV"
    /\ results[1].outcome = "solved"
    /\ results[1].assignments > results[1].counter
    /\ results[1].board \in Extensions(cellList)
    /\ pc = "fcLoop" /\ stack # <<>> /\ Top.at = "loop"
    /\ \E i \in KeySet : Top.puzzle.cellValues[i] = 0 /\ Top.puzzle.cellRanges[i] = <<>>
    /\ Len(getSmallestRange(Top.puzzle)) >= 2
    /\ Top.cell = getSmallestRange(Top.puzzle)[1]

====
